---- MODULE Spec2Model ----
(***************************************************************************)
(* A model of the laso-packet link-layer codec: the 6b/8b DC balancer, the *)
(* Golay (24,12) codec, the interleaver, the packet frame and its status   *)
(* byte, the transmit segmenter (MessageSender) and the receive assembler  *)
(* (RxMessage).  Bytes and words are naturals; every operator is computed  *)
(* the way the Rust source computes it.                                    *)
(***************************************************************************)
EXTENDS Integers, Sequences, FiniteSets, TLC

---------------------------------------------------------------------------
(* Machine arithmetic                                                      *)

Pow2(n) == 2 ^ n

\* (w >> n) & 1
Bit(w, n) == (w \div Pow2(n)) % 2

RECURSIVE XorBits(_, _)
XorBits(a, b) ==
  IF a = 0 THEN b
  ELSE IF b = 0 THEN a
  ELSE ((a + b) % 2) + 2 * XorBits(a \div 2, b \div 2)

XorNib == [a \in 0..15 |-> [b \in 0..15 |-> XorBits(a, b)]]

\* a ^ b, four bits at a time
RECURSIVE Xor(_, _)
Xor(a, b) ==
  IF a = 0 THEN b
  ELSE IF b = 0 THEN a
  ELSE XorNib[a % 16][b % 16] + 16 * Xor(a \div 16, b \div 16)

\* u8::count_ones / u32::count_ones
RECURSIVE PopCount(_)
PopCount(w) == IF w = 0 THEN 0 ELSE (w % 2) + PopCount(w \div 2)

Min(a, b) == IF a < b THEN a ELSE b

\* the first n elements of s (all of s when it is shorter)
Take(s, n) == SubSeq(s, 1, Min(n, Len(s)))

\* heapless::Vec::push on a vector of capacity cap: a full vector is unchanged
PushCap(v, b, cap) == IF Len(v) < cap THEN Append(v, b) ELSE v

---------------------------------------------------------------------------
(* dc.rs: the 6b/8b DC balancer                                            *)

\* a balance that puts both stuffing bits between the top pair and the rest
balance_Packed(raw) ==
  LET ones_left == PopCount(raw \div 4)
      ones_right == PopCount(raw % 16)
      b_x == IF ones_left > 2 THEN 0 ELSE 1
      b_y == IF ones_right < 2 THEN 1 ELSE 0
  IN ((raw \div 16) % 4) * 64 + b_x * 32 + b_y * 16 + (raw % 16)

\* a balance whose stuffing bits follow the majority instead of opposing it
balance_Majority(raw) ==
  LET ones_left == PopCount(raw \div 4)
      ones_right == PopCount(raw % 16)
      b_x == IF ones_left > 2 THEN 1 ELSE 0
      b_y == IF ones_right < 2 THEN 0 ELSE 1
  IN ((raw \div 16) % 4) * 64 + b_x * 32 + ((raw \div 4) % 4) * 8 + b_y * 4 + (raw % 4)

balance(raw) ==
  LET ones_left == PopCount(raw \div 4)
      ones_right == PopCount(raw % 16)
      b_x == IF ones_left > 2 THEN 0 ELSE 1
      b_y == IF ones_right < 2 THEN 1 ELSE 0
  IN ((raw \div 16) % 4) * 64 + b_x * 32 + ((raw \div 4) % 4) * 8 + b_y * 4 + (raw % 4)

\* a strip that keeps the low six bits of the symbol
strip_LowSix(enc) == enc % 64

strip(enc) ==
  ((enc \div 64) % 4) * 16 + ((enc \div 8) % 4) * 4 + (enc % 4)

---------------------------------------------------------------------------
(* packet.rs: the Golay (24,12) codec                                      *)

POLY == 2787

RECURSIVE syndromeLoop(_, _)
syndromeLoop(cw, n) ==
  IF n = 0 THEN cw
  ELSE IF (cw % 2) = 1
  THEN syndromeLoop(Xor(cw, POLY) \div 2, n - 1)
  ELSE syndromeLoop(cw \div 2, n - 1)

\* the syndrome of a [23,12] Golay codeword, paired with the upper bits
syndrome(cw) == syndromeLoop(cw % 8388608, 12) * 4096

\* a parity that leaves the top byte of the word out
parity_24b_LowBytes(cw) == PopCount(cw % 65536) % 2

parity_24b(cw) ==
  LET p0 == Xor(Xor((cw \div 65536) % 256, (cw \div 256) % 256), cw % 256)
      p1 == Xor(p0 \div 16, p0)
      p2 == Xor(p1 \div 4, p1)
      p3 == Xor(p2 \div 2, p2)
  IN p3 % 2

apply_golay(c) ==
  LET code == syndrome(c) + c
  IN code + parity_24b(code) * 8388608

ONES == <<0, 1, 1, 2, 1, 2, 2, 3, 1, 2, 2, 3, 2, 3, 3, 4>>

RECURSIVE count_ones(_)
count_ones(b) ==
  IF b = 0 THEN 0 ELSE ONES[(b % 16) + 1] + count_ones(b \div 16)

\* rotate the 23-bit codeword cw left by n bits: each turn of the loop moves
\* bit 22 to bit 0, the bits above bit 22 are masked off at the end
rotate_left(cw, n) ==
  LET c == cw % 8388608
  IN ((c % Pow2(23 - n)) * Pow2(n)) + (c \div Pow2(23 - n))

\* one turn of the loop of rotate_right: bit 0 moves to bit 22, which
\* otherwise receives bit 23
rotate_right_1(cw) ==
  IF (cw % 2) = 1
  THEN (cw \div 2) + (IF Bit(cw, 23) = 1 THEN 0 ELSE 4194304)
  ELSE cw \div 2

\* rotate the 23-bit codeword cw right by n bits: after the first turn the
\* word has 23 bits and the remaining n - 1 turns rotate it
rotate_right(cw, n) ==
  IF n = 0 THEN cw % 8388608
  ELSE LET c == rotate_right_1(cw)
       IN (c \div Pow2(n - 1)) + ((c % Pow2(n - 1)) * Pow2(24 - n))

\* undo_golay, the codeword pass j works on: j = -1 is the pass without a
\* trial bit; a pass that fails leaves cw rotated 23 times, and pass j >= 0
\* restores the previous trial bit and flips bit j
trialWord(raw, j) ==
  IF j = -1 THEN raw ELSE Xor(raw % 8388608, Pow2(j))

\* a decoder that lets every pass accept a syndrome of weight 3
trialLimit_Weight3(j) == 3

\* the weight limit of pass j
trialLimit(j) == IF j = -1 THEN 3 ELSE 2

\* the inner loop of undo_golay after i turns: cw rotated left i times
shiftWord(cw, i) == IF i = 0 THEN cw ELSE rotate_left(cw, i)

\* the turns i of the inner loop at which the syndrome of the shifted word
\* is within the weight limit w; the loop returns at the first of them
shiftMatches(cw, w) ==
  {i \in 0..22 : count_ones(syndrome(shiftWord(cw, i))) <= w}

\* the first turn of the inner loop at which a shift matches
firstMatch(matches) == CHOOSE m \in matches : \A k \in matches : m <= k

\* a match at the shifted word cwi with syndrome s after i turns: the errors
\* are removed, the data unrotated; j >= 0 counts the toggled trial bit
corrected(cwi, s, i, j) ==
  <<rotate_right(Xor(cwi, s), i) % 4096,
    IF j >= 0 THEN count_ones(s) + 1 ELSE count_ones(s),
    parity_24b(rotate_right(Xor(cwi, s), i)) = 0>>

\* pass j on the word cw1 whose matching shifts are matches
trialOn(cw1, matches, j) ==
  IF syndrome(cw1) = 0
  THEN [returns |-> TRUE, result |-> <<cw1 % 4096, 0, parity_24b(cw1) = 0>>]
  ELSE IF matches = {}
  THEN [returns |-> FALSE, result |-> <<>>]
  ELSE [returns |-> TRUE,
        result |-> corrected(shiftWord(cw1, firstMatch(matches)),
                             syndrome(shiftWord(cw1, firstMatch(matches))),
                             firstMatch(matches), j)]

\* pass j of undo_golay: returns says whether the pass returns (the syndrome
\* is zero or a shift matches), result is what it then returns:
\* <<message, corrected bits, parity ok>>
trial(raw, j) ==
  trialOn(trialWord(raw, j), shiftMatches(trialWord(raw, j), trialLimit(j)), j)

\* the trial bit passes did not return for first, the outcome of pass -1:
\* the first of passes that returns decides; when none does the original
\* word is returned
undoTrials(raw, first, passes) ==
  IF first.returns THEN first.result
  ELSE IF passes = {} THEN <<raw % 4096, 0, parity_24b(raw) = 0>>
  ELSE trial(raw, firstMatch(passes)).result

\* undo_golay: <<message, corrected bits, parity ok>>
undo_golay(raw) ==
  undoTrials(raw, trial(raw, -1), {j \in 0..22 : trial(raw, j).returns})

---------------------------------------------------------------------------
(* packet.rs: PacketStatus                                                 *)

Legacy(first, last, checksum4) ==
  [tag |-> "Legacy", first |-> first, last |-> last, checksum4 |-> checksum4]
V2(short, naked, listens) ==
  [tag |-> "V2", short |-> short, naked |-> naked, listens |-> listens]
CRC8P(b) == [tag |-> "CRC8P", v |-> b]
Raw(b) == [tag |-> "Raw", v |-> b]
Data(b) == [tag |-> "Data", v |-> b]
Unknown == [tag |-> "Unknown"]
Internal == [tag |-> "Internal"]

\* PacketStatus::legacy
legacy(first, last) == Legacy(first, last, 0)

finished(st) ==
  CASE st.tag = "Legacy" -> st.last
    [] st.tag = "V2" -> st.short
    [] st.tag = "Unknown" -> TRUE
    [] st.tag = "Internal" -> TRUE
    [] OTHER -> FALSE

\* a Legacy decode that takes the first flag from bit 1
decodeLegacy_FirstBit1(next) == Legacy(Bit(next, 1) = 1, Bit(next, 0) = 0, next \div 16)

decodeLegacy(next) == Legacy(Bit(next, 2) = 1, Bit(next, 0) = 0, next \div 16)

\* PacketStatus::decode: the status of the packet that follows st, from its
\* raw status byte
decode(st, next) ==
  CASE st.tag = "Legacy" -> decodeLegacy(next)
    [] st.tag = "V2" -> IF st.naked THEN Data(next) ELSE CRC8P(next)
    [] st.tag = "Unknown" ->
         IF Bit(next, 2) = 1
         THEN decodeLegacy(next)
         ELSE V2(Bit(next, 0) = 0, Bit(next, 1) = 1, Bit(next, 3) = 1)
    [] st.tag = "CRC8P" -> CRC8P(next)
    [] st.tag = "Raw" -> Raw(next)
    [] st.tag = "Data" -> Data(next)
    [] OTHER -> Internal

\* PacketStatus::encode (u8 arithmetic: checksum4 << 4 keeps the low 8 bits)
encode(st) ==
  CASE st.tag = "Legacy" ->
         LET flags == (IF st.first THEN 4 ELSE 0) + (IF st.last THEN 0 ELSE 1)
             high == (st.checksum4 * 16) % 256
         IN flags + high
    [] st.tag = "V2" ->
         (IF st.listens THEN 8 ELSE 0) + (IF st.naked THEN 2 ELSE 0)
           + (IF st.short THEN 0 ELSE 1)
    [] st.tag = "CRC8P" -> st.v
    [] st.tag = "Raw" -> st.v
    [] st.tag = "Data" -> st.v
    [] OTHER -> 0

---------------------------------------------------------------------------
(* packet.rs: PacketData                                                   *)

PacketData(data, status) == [data |-> data, status |-> status]

\* PacketData::checksum: acc.overflowing_add(v).0
checksum(acc, v) == (acc + v) % 256

RECURSIVE foldChecksum(_, _)
\* data.iter().fold(acc, checksum)
foldChecksum(acc, data) ==
  IF acc >= 0 /\ data # <<>>
  THEN foldChecksum(checksum(acc, Head(data)), Tail(data))
  ELSE acc

compute_status(p) ==
  IF p.status.tag = "Legacy"
  THEN LET strip_chsum == Legacy(p.status.first, p.status.last, 0)
           checksum8 == (foldChecksum(85, p.data) + encode(strip_chsum)) % 256
           ucrc == checksum8 \div 16
           lcrc == checksum8 % 16
       IN Legacy(p.status.first, p.status.last, (ucrc + lcrc) % 256)
  ELSE p.status

check_valid(p) == compute_status(p) = p.status

\* the 12 wire bytes: the payload (zero where it is shorter than 11 bytes)
\* and the encoded status
to_wire_data(p) ==
  [idx \in 1..12 |->
     IF idx = 12 THEN encode(compute_status(p))
     ELSE IF idx <= Len(p.data) THEN p.data[idx] ELSE 0]

---------------------------------------------------------------------------
(* packet.rs: the wire pipeline                                            *)

\* the three bytes of a 24-bit word, most significant first
Bytes3(w) == <<(w \div 65536) % 256, (w \div 256) % 256, w % 256>>

\* PacketWithInterleave::g3B
g3B(msb, isb, lsb) == msb * 65536 + isb * 256 + lsb

\* From<&PacketData> for PacketWithGolay: each three wire bytes give two
\* 12-bit symbols, each symbol a 24-bit codeword stored big-endian
golayGroup(wire, i_src) ==
  LET src1 == wire[i_src] * 16 + (wire[i_src + 1] \div 16)
      src2 == (wire[i_src + 1] * 256 + wire[i_src + 2]) % 4096
  IN Bytes3(apply_golay(src1)) \o Bytes3(apply_golay(src2))

PacketWithGolay(p) ==
  LET wire == to_wire_data(p)
  IN golayGroup(wire, 1) \o golayGroup(wire, 4) \o golayGroup(wire, 7)
       \o golayGroup(wire, 10)

\* the eight 24-bit words A..H of a 24-byte Golay buffer
GolayWord(g, k) == g3B(g[3 * k + 1], g[3 * k + 2], g[3 * k + 3])

\* an interleaver that hands the Golay buffer on as it is
PacketWithInterleave_Plain(g) == g

\* From<&PacketWithGolay> for PacketWithInterleave: byte i takes bit i of
\* each word, word k (A = 0 .. H = 7) at bit 7 - k
PacketWithInterleave(g) ==
  [i \in 1..24 |->
     LET b(k) == Bit(GolayWord(g, 7 - k), i - 1)
     IN b(0) + 2 * b(1) + 4 * b(2) + 8 * b(3) + 16 * b(4) + 32 * b(5)
          + 64 * b(6) + 128 * b(7)]

\* a scatter that reads word k at bit k of each byte
scatterBits_Mirrored(p, k, m) ==
  LET b(n) == Bit(p[(8 * m + n) + 1], k)
  IN b(0) + 2 * b(1) + 4 * b(2) + 8 * b(3) + 16 * b(4) + 32 * b(5)
       + 64 * b(6) + 128 * b(7)

\* byte m (0 the least significant) of word k rebuilt from the interleaved
\* bytes: bit src of the word is bit 7 - k of byte src
scatterBits(p, k, m) ==
  LET b(n) == Bit(p[(8 * m + n) + 1], 7 - k)
  IN b(0) + 2 * b(1) + 4 * b(2) + 8 * b(3) + 16 * b(4) + 32 * b(5)
       + 64 * b(6) + 128 * b(7)

\* From<&PacketWithInterleave> for PacketWithGolay: the words A..H, each
\* stored big-endian
Deinterleave(p) ==
  [n \in 1..24 |-> scatterBits(p, (n - 1) \div 3, 2 - ((n - 1) % 3))]

\* bit n of the bit stream a buffer is read as: byte after byte (width bits
\* each), least significant bit first
StreamBit(buf, width, n) == Bit(buf[(n \div width) + 1], n % width)

\* the count bits of the stream from bit n on, as a number
StreamBits(buf, width, n, count) ==
  LET b(k) == StreamBit(buf, width, n + k) * Pow2(k)
  IN IF count = 6
     THEN b(0) + b(1) + b(2) + b(3) + b(4) + b(5)
     ELSE b(0) + b(1) + b(2) + b(3) + b(4) + b(5) + b(6) + b(7)

\* From<&PacketWithInterleave> for PacketWithoutDC: the loop refills its
\* buffer a byte at a time and takes six bits off its low end for each of
\* the 32 symbols, so symbol i is bits 6i..6i+5 of the stream, balanced
PacketWithoutDC(p) == [i \in 1..32 |-> balance(StreamBits(p, 8, 6 * (i - 1), 6))]

\* From<&PacketWithoutDC> for PacketWithInterleave: each symbol is stripped to
\* six bits and pushed on the high end of the buffer, a byte leaves from its
\* low end as soon as eight bits are there, so byte j is bits 8j..8j+7 of the
\* stream of stripped symbols
StripDC(d) ==
  LET stripped == [i \in 1..32 |-> strip(d[i])]
  IN [j \in 1..24 |-> StreamBits(stripped, 6, 8 * (j - 1), 8)]

\* PacketData::encode_for_transmit
encode_for_transmit(p) == PacketWithoutDC(PacketWithInterleave(PacketWithGolay(p)))

\* the three bytes the decoded 12-bit symbols dst1 and dst2 give
ungroup(dst1, dst2) ==
  <<dst1 \div 16, ((dst1 % 16) * 16) + ((dst2 \div 256) % 16), dst2 % 256>>

\* the GolayDecoderResult of the eight undo_golay results u: the twelve
\* decoded bytes (eleven of payload, the raw status), the corrected bits and
\* the parity failures added up
collect(u) ==
  [data |-> PacketData(ungroup(u[1][1], u[2][1]) \o ungroup(u[3][1], u[4][1])
                         \o ungroup(u[5][1], u[6][1])
                         \o SubSeq(ungroup(u[7][1], u[8][1]), 1, 2),
                       Raw(ungroup(u[7][1], u[8][1])[3])),
   parity_errors |-> Cardinality({k \in 1..8 : ~u[k][3]}),
   errors |-> u[1][2] + u[2][2] + u[3][2] + u[4][2] + u[5][2] + u[6][2]
                + u[7][2] + u[8][2]]

\* From<&PacketWithGolay> for GolayDecoderResult
GolayDecoderResult(g) ==
  collect(<<undo_golay(GolayWord(g, 0)), undo_golay(GolayWord(g, 1)),
            undo_golay(GolayWord(g, 2)), undo_golay(GolayWord(g, 3)),
            undo_golay(GolayWord(g, 4)), undo_golay(GolayWord(g, 5)),
            undo_golay(GolayWord(g, 6)), undo_golay(GolayWord(g, 7))>>)

---------------------------------------------------------------------------
(* util.rs: the varlength and id codecs                                    *)

RECURSIVE encode_varlength(_)
\* the bytes handed to the consumer, in order
encode_varlength(val) ==
  IF val >= 128
  THEN <<128 + (val % 128)>> \o encode_varlength(val \div 128)
  ELSE <<val>>

RECURSIVE encodeIdLoop(_, _)
encodeIdLoop(val, out) ==
  IF val >= 128
  THEN encodeIdLoop(val \div 128, ((out * 256) % 65536) + 128 + (val % 128))
  ELSE ((out * 256) % 65536) + val

\* encode_id on u16: the varlength bytes of val packed big-endian
encode_id(val) == encodeIdLoop(val % 65536, 0)

\* BitAdder::add for a u16: both bytes, most significant first
\* an add that appends the low byte first
add_u16_LittleEndian(v) == <<v % 256, (v \div 256) % 256>>

add_u16(v) == <<(v \div 256) % 256, v % 256>>

RECURSIVE decodeLoop(_, _, _, _)
decodeLoop(data, val, shift, idx) ==
  IF shift < 16 /\ idx < Len(data)
  THEN LET b == data[idx + 1]
           val1 == val + (b % 128) * Pow2(shift)  \* at most 21 bits: no u32 overflow
       IN IF b < 128
          THEN <<val1, idx + 1>>
          ELSE decodeLoop(data, val1, shift + 7, idx + 1)
  ELSE <<val, idx>>

\* <<value, index of the next unconsumed byte>>
decode_extended_number(data, start) == decodeLoop(data, 0, 0, start)

---------------------------------------------------------------------------
(* rx.rs: LASO_CRC, the CRC8 digest (crc::Crc<u8, NoTable>)                *)

CRC_POLY == 213
CRC_INIT == 0

RECURSIVE crc8Bits(_, _)
\* eight shifts of the bitwise CRC, most significant bit first:
\* value = (value << 1) ^ ((value >> 7) * poly)
crc8Bits(value, n) ==
  IF n = 0 THEN value
  ELSE IF value >= 128
  THEN crc8Bits(Xor((value * 2) % 256, CRC_POLY), n - 1)
  ELSE crc8Bits(value * 2, n - 1)

\* the digest after one more byte
crcByte(crc, byte) == crc8Bits(Xor(crc, byte), 8)

RECURSIVE crcUpdate(_, _)
\* Digest::update
crcUpdate(crc, bytes) ==
  IF crc >= 0 /\ bytes # <<>>
  THEN crcUpdate(crcByte(crc, Head(bytes)), Tail(bytes))
  ELSE crc

\* Digest::finalize: no reflection, no xorout
crcFinalize(crc) == crc

---------------------------------------------------------------------------
(* message.rs: Message<N>                                                  *)

\* the capacity of Message<N> in the round-trip tests
N == 22

\* packet_type is <<>> for None and <<t>> for Some(t)
Message(version, data, source_address, packet_type, will_listen) ==
  [version |-> version, data |-> data, source_address |-> source_address,
   packet_type |-> packet_type, will_listen |-> will_listen]

\* Message::default
DefaultMessage == Message("V2", <<>>, 0, <<>>, FALSE)

---------------------------------------------------------------------------
(* tx.rs: MessageSender                                                    *)

\* MessageSender::new
NewSender(message) ==
  [message |-> message,
   next_status |->
     CASE message.version = "LegacyLaso" -> legacy(TRUE, TRUE)
       [] message.version = "V2" -> V2(FALSE, FALSE, message.will_listen)
       [] message.version = "V2Short" -> V2(TRUE, FALSE, message.will_listen)
       [] message.version = "Naked" -> V2(FALSE, TRUE, message.will_listen),
   sent |-> 0,
   force_next |-> FALSE,
   crc8 |-> CRC_INIT]

data_to_send(s) == s.sent < Len(s.message.data)

Zeros(n) == [i \in 1..n |-> 0]

\* push each byte in turn, ignoring the pushes a full vector refuses
pushAll(v, bytes, cap) ==
  IF Len(v) >= cap THEN v ELSE Take(v \o bytes, cap)

\* the header the first packet queues: the packet type (not in naked mode)
\* and the source address
packetHeader(s) ==
  LET st == s.next_status
      m == s.message
      id == add_u16(encode_id(IF m.packet_type = <<>> THEN 0 ELSE m.packet_type[1]))
      src == encode_varlength(m.source_address)
  IN CASE st.tag = "Legacy" -> IF st.first THEN pushAll(<<>>, id \o src, 11) ELSE <<>>
       [] st.tag = "V2" -> pushAll(<<>>, (IF st.naked THEN <<>> ELSE id) \o src, 11)
       [] OTHER -> <<>>

\* the status template packet() leaves for the next packet
packetNextStatus(s) ==
  LET st == s.next_status
  IN CASE st.tag = "Legacy" -> legacy(FALSE, TRUE)
       [] st.tag = "V2" -> IF st.naked THEN Data(0) ELSE CRC8P(0)
       [] OTHER -> st

\* a packet with room for a three-byte header and nothing else
packetCapacity_HeaderOnly(st) == 3

\* the room of the first packet: a short V2 packet keeps its last byte for
\* the CRC8
packetCapacity(st) ==
  IF st.tag = "V2" /\ ~st.naked /\ st.short THEN 10 ELSE 11

\* a fill that adds no padding
packetFill_NoPadding(header, data, sent, capacity) ==
  IF Len(header) >= capacity
  THEN [data |-> header, sent |-> sent]
  ELSE [data |-> Take(header \o SubSeq(data, sent + 1, Len(data)), capacity),
        sent |-> IF sent >= Len(data) THEN sent
                 ELSE Min(Len(data), sent + (capacity - Len(header)))]

\* "fill in data", "add padding": the payload from sent on behind the header
\* up to capacity, then zeros.  [data, sent afterwards]
packetFill(header, data, sent, capacity) ==
  IF Len(header) >= capacity
  THEN [data |-> header, sent |-> sent]
  ELSE [data |-> Take(header \o SubSeq(data, sent + 1, Len(data))
                        \o Zeros(capacity), capacity),
        sent |-> IF sent >= Len(data) THEN sent
                 ELSE Min(Len(data), sent + (capacity - Len(header)))]

\* a sender that puts no message byte into the status of a naked packet
packetMarker_NoExtraByte(st, data, sent) ==
  CASE st.tag = "Legacy" -> Legacy(st.first, ~(sent < Len(data)), st.checksum4)
    [] st.tag = "Data" -> Data(0)
    [] OTHER -> st

\* a sender that leaves the last flag of the status template as it is
packetMarker_Template(st, data, sent) ==
  CASE st.tag = "Data" -> Data(IF sent < Len(data) THEN data[sent + 1] ELSE 0)
    [] OTHER -> st

\* the continuation marker of a Legacy packet, the extra byte of a naked one
packetMarker(st, data, sent) ==
  CASE st.tag = "Legacy" -> Legacy(st.first, ~(sent < Len(data)), st.checksum4)
    [] st.tag = "Data" -> Data(IF sent < Len(data) THEN data[sent + 1] ELSE 0)
    [] OTHER -> st

\* a sender that leaves the status byte of the header packet out of the digest
packetCrc_NoStatus(crc0, data, st) ==
  CASE st.tag = "V2" -> crcUpdate(crc0, data)
    [] st.tag = "CRC8P" -> crcUpdate(crc0, data)
    [] OTHER -> crc0

\* the digest after the packet: fed by the header packet (payload and status)
\* and by the CRC8P packets (payload)
packetCrc(crc0, data, st) ==
  CASE st.tag = "V2" -> crcUpdate(crcUpdate(crc0, data), <<encode(st)>>)
    [] st.tag = "CRC8P" -> crcUpdate(crc0, data)
    [] OTHER -> crc0

\* the packet handed out: a short V2 packet gets the CRC8 as its last byte, a
\* CRC8P packet as its status
packetSealed(data, st, crc) ==
  PacketData(IF st.tag = "V2" /\ st.short /\ ~st.naked
             THEN PushCap(data, crcFinalize(crc), 11) ELSE data,
             IF st.tag = "CRC8P" THEN CRC8P(crcFinalize(crc)) ELSE st)

\* packet() from the digest on
packetOut(s, data, st, sent, crc) ==
  [sender |-> [message |-> s.message,
               next_status |-> packetNextStatus(s),
               sent |-> sent,
               force_next |-> IF s.next_status.tag = "V2" /\ ~s.next_status.naked
                              THEN ~s.next_status.short ELSE s.force_next,
               crc8 |-> crc],
   p |-> packetSealed(data, st, crc)]

\* packet() from "re-compute packet level status" on
packetStatus(s, data, st, sent) ==
  packetOut(s, data, st, sent,
            packetCrc(IF s.next_status.tag = "V2" THEN CRC_INIT ELSE s.crc8, data, st))

\* packet() from "fill in continuation markers" on; f is the packet filled
packetMarked(s, f) ==
  packetStatus(s, f.data,
               compute_status(PacketData(f.data,
                                         packetMarker(s.next_status, s.message.data, f.sent))),
               IF s.next_status.tag = "Data" THEN f.sent + 1 ELSE f.sent)

\* MessageSender::packet: [sender |-> the sender afterwards, p |-> the packet]
packet(s) ==
  packetMarked(s, packetFill(packetHeader(s), s.message.data, s.sent,
                             packetCapacity(s.next_status)))

---------------------------------------------------------------------------
(* rx.rs: RxMessage                                                        *)

\* RxMessage::default
DefaultRx ==
  [msg |-> DefaultMessage, naked |-> FALSE, errors |-> 0,
   last_status |-> Unknown, crc8 |-> CRC_INIT]

\* u8::wrapping_add
wrapping_add(a, b) == (a + b) % 256

\* u8::saturating_add
saturating_add(a, b) == IF a + b > 255 THEN 255 ELSE a + b

\* a receiver that only takes a last Legacy packet as the end of the message
IsTerminal_LegacyOnly(st) == st.tag = "Legacy" /\ st.last

\* the previous packet closed the message: the next one is Unexpected
IsTerminal(st) ==
  \/ st.tag = "Legacy" /\ st.last
  \/ st.tag = "V2" /\ st.short

\* a receiver that classifies every status byte as that of a first packet
curStatus_Stateless(rx, p) ==
  IF p.status.tag = "Raw" THEN decode(Unknown, p.status.v) ELSE p.status

\* the status append works with: a Raw status byte is classified from the
\* status of the previous packet
curStatus(rx, p) ==
  IF p.status.tag = "Raw" THEN decode(rx.last_status, p.status.v) ELSE p.status

Outcome(rx, result) == [rx |-> rx, result |-> result]

\* msg.data.push for each byte, the first refused push ending the loop:
\* <<the vector, whether every push succeeded>>
pushData(v, bytes) ==
  <<pushAll(v, bytes, N), Len(v) + Len(bytes) <= N>>

\* the tail of append, after the match on cur_status: last_status and the
\* error counter are recorded, then the payload is appended
appendPayload(rx, dec, cur_status, skip, size) ==
  LET p == dec.data
      errors == saturating_add(saturating_add(rx.errors, dec.errors % 256),
                               dec.parity_errors % 256)
      pushed == pushData(rx.msg.data, SubSeq(p.data, skip + 1, size))
      extra == IF cur_status.tag = "Data" /\ pushed[2]
               THEN pushData(pushed[1], <<cur_status.v>>) ELSE pushed
      rx1 == [rx EXCEPT !.last_status = cur_status, !.errors = errors,
                        !.msg.data = extra[1]]
  IN Outcome(rx1, IF extra[2] THEN "Ok" ELSE "Full")

\* append, Legacy arm
appendLegacy(rx, dec, cur_status) ==
  LET p == dec.data
      t == decode_extended_number(p.data, 0)
      a == decode_extended_number(p.data, t[2])
      msg1 == IF cur_status.first
              THEN [rx.msg EXCEPT !.packet_type = <<t[1]>>, !.source_address = a[1],
                                  !.version = "LegacyLaso"]
              ELSE [rx.msg EXCEPT !.version = "LegacyLaso"]
      skip == IF cur_status.first THEN a[2] ELSE 0
  IN IF rx.msg.data # <<>> /\ cur_status.first
     THEN Outcome(rx, "OutOfOrder")
     ELSE appendPayload([rx EXCEPT !.msg = msg1], dec, cur_status, skip, Len(p.data))

\* a receiver that takes any last byte of a short packet for its CRC8
shortCrcOk_Always(p, size, crc) == TRUE

\* the last byte of a short packet against the digest (a clone is finalized,
\* the running digest is left as it is)
shortCrcOk(p, size, crc) == p.data[size + 1] = crcFinalize(crc)

\* append, V2 arm: the header is parsed, the digest fed, and a short packet
\* compares its last byte with the digest
appendV2(rx, dec, cur_status) ==
  LET p == dec.data
      naked == cur_status.naked
      t == IF naked THEN <<0, 0>> ELSE decode_extended_number(p.data, 0)
      a == decode_extended_number(p.data, t[2])
      skip == a[2]
      version == IF naked THEN "Naked"
                 ELSE IF cur_status.short THEN "V2Short" ELSE "V2"
      size == IF ~naked /\ cur_status.short THEN Len(p.data) - 1 ELSE Len(p.data)
      msg1 == [rx.msg EXCEPT !.packet_type = IF naked THEN @ ELSE <<t[1]>>,
                             !.source_address = a[1],
                             !.version = version]
      crc1 == crcUpdate(crcUpdate(rx.crc8, Take(p.data, size)), <<encode(p.status)>>)
      rx1 == [rx EXCEPT !.naked = naked, !.msg = msg1, !.crc8 = crc1]
  IN IF size < 0 THEN Outcome([rx EXCEPT !.naked = naked, !.msg = msg1], "panic")
     ELSE IF cur_status.short
     THEN IF size >= Len(p.data) THEN Outcome(rx1, "panic")
          ELSE IF ~shortCrcOk(p, size, crc1) THEN Outcome(rx1, "CrcFailed")
          ELSE appendPayload(rx1, dec, cur_status, skip, size)
     ELSE appendPayload(rx1, dec, cur_status, skip, size)

\* a CRC8P arm that records the packet before it compares the CRC8
appendCRC8P_CommitFirst(rx, dec, cur_status) ==
  LET p == dec.data
      crc1 == crcUpdate(rx.crc8, p.data)
      rx1 == [rx EXCEPT !.crc8 = crc1]
      done == appendPayload(rx1, dec, cur_status, 0, Len(p.data))
  IN IF cur_status.v # crcFinalize(crc1) THEN Outcome(done.rx, "CrcFailed") ELSE done

\* append, CRC8P arm
appendCRC8P(rx, dec, cur_status) ==
  LET p == dec.data
      crc1 == crcUpdate(rx.crc8, p.data)
      rx1 == [rx EXCEPT !.crc8 = crc1]
  IN IF cur_status.v # crcFinalize(crc1) THEN Outcome(rx1, "CrcFailed")
     ELSE appendPayload(rx1, dec, cur_status, 0, Len(p.data))

\* RxMessage::append: [rx |-> the receiver afterwards, result |-> "Ok", the
\* RxDecodeError returned, or "panic" when the call aborts]
append(rx, dec) ==
  LET p == dec.data
      cur_status == curStatus(rx, p)
  IN IF IsTerminal(rx.last_status) THEN Outcome(rx, "Unexpected")
     ELSE IF ~check_valid(p) THEN Outcome(rx, "Invalid")
     ELSE CASE cur_status.tag = "Legacy" -> appendLegacy(rx, dec, cur_status)
            [] cur_status.tag = "V2" -> appendV2(rx, dec, cur_status)
            [] cur_status.tag = "CRC8P" -> appendCRC8P(rx, dec, cur_status)
            [] cur_status.tag = "Unknown" -> Outcome(rx, "UnknownPacket")
            [] cur_status.tag = "Internal" -> Outcome(rx, "InternalOnly")
            [] cur_status.tag = "Raw" -> Outcome(rx, "RawNeedsDecoding")
            [] cur_status.tag = "Data" -> appendPayload(rx, dec, cur_status, 0, Len(p.data))

---------------------------------------------------------------------------
(* behavior.rs: decode_with_breaks, run straight through                   *)

decode_straight(burst) == GolayDecoderResult(Deinterleave(StripDC(burst)))

---------------------------------------------------------------------------
(* The transmission: a sender, the radio channel, the decoder coroutine    *)
(* and a receiver, driven as the round-trip tests drive them               *)

VARIABLES
  msg,            \* the Message handed to MessageSender::new
  sender,         \* the MessageSender
  wire_packets,   \* the PacketData returned by packet(), in order
  radio_packets,  \* bursts on the air: [sent |-> as transmitted, heard |-> as received]
  noise,          \* the interference on the channel: 0 none, k > 0 pattern k
  dpc,            \* decode_with_breaks: "idle", "yield1", "yield2", "ready"
  dbuf,           \* the buffer decode_with_breaks holds across a yield
  dec,            \* the GolayDecoderResult handed to append
  dsent,          \* the burst as transmitted that dec was decoded from
  polls,          \* the polls of the decode_with_breaks future: how many, what the
                  \* last one returned, how often the waker was woken
  rx,             \* the RxMessage
  rx_prev,        \* the RxMessage as it was before the last append call
  rx_result,      \* what the last append call returned ("none" before the first)
  ncalls,         \* the number of append calls made
  golay,          \* one Golay codeword on its way through apply_golay and undo_golay
  calc            \* one call of a pure function: [op, arg, mid, out]

txVars == <<msg, sender, wire_packets>>
chanVars == <<radio_packets, noise>>
decVars == <<dpc, dbuf, dec, dsent, polls>>
rxVars == <<rx, rx_prev, rx_result, ncalls>>
vars == <<txVars, chanVars, decVars, rxVars, golay, calc>>

\* bounds of the model
MaxLen == 12
NumNoise == 1
MaxAppends == 3
NumCodewords == 2
NumPayloads == 2
MaxSmallValue == 300
NumBuffers == 3
MaxErrAppends == 10

\* the payload of the sample messages: 1, 2, 3, ...
SampleData(len) == [i \in 1..len |-> i]

PacketTypes == {2, 258}
SourceAddresses == {85}

Messages ==
  {Message(v, SampleData(len), a, <<t>>, l) :
     v \in {"LegacyLaso", "V2", "V2Short"}, len \in 0..Min(MaxLen, N),
     a \in SourceAddresses, t \in PacketTypes, l \in BOOLEAN}
  \cup
  {Message("Naked", SampleData(len), a, <<>>, l) :
     len \in 0..Min(MaxLen, N), a \in SourceAddresses, l \in BOOLEAN}

NoDec == [data |-> PacketData(<<>>, Unknown), parity_errors |-> 0, errors |-> 0]

\* no poll made yet
NoPolls == [n |-> 0, ret |-> "none", wakes |-> 0]

\* a poll that ends in yield_now: the Yield future wakes the waker and returns
\* Pending (the next poll finds its flag set and runs on)
\* a yield that returns Pending without waking its waker
PollPending_NoWake(pl) == [n |-> pl.n + 1, ret |-> "Pending", wakes |-> pl.wakes]

PollPending(pl) == [n |-> pl.n + 1, ret |-> "Pending", wakes |-> pl.wakes + 1]

\* a poll that runs to the end of the future
PollReady(pl) == [n |-> pl.n + 1, ret |-> "Ready", wakes |-> pl.wakes]

NoCalc == [op |-> "none", arg |-> <<>>, mid |-> <<>>, out |-> <<>>]

NoGolay == [stage |-> "none", c |-> 0, mask |-> 0, cw |-> 0, out |-> <<>>]

\* nothing sent, nothing on the air, the decoder idle, a fresh RxMessage
Quiet ==
  /\ wire_packets = <<>>
  /\ radio_packets = <<>>
  /\ dpc = "idle"
  /\ dbuf = <<>>
  /\ dec = NoDec
  /\ dsent = <<>>
  /\ polls = NoPolls
  /\ rx = DefaultRx
  /\ rx_prev = DefaultRx
  /\ rx_result = "none"
  /\ ncalls = 0

Init ==
  /\ msg \in Messages
  /\ sender = NewSender(msg)
  /\ noise \in 0..NumNoise
  /\ golay = NoGolay
  /\ calc = NoCalc
  /\ Quiet

\* the byte interference pattern k leaves in place of byte b
NoiseByte(k, b) ==
  CASE k = 1 -> 255
    [] k = 2 -> 255 - b
    [] OTHER -> (b + 37 * k) % 256

\* on-air bytes 3..=6 overwritten (the burst error of the corruption tests)
Corrupted(burst, k) ==
  IF k = 0 THEN burst
  ELSE [i \in 1..Len(burst) |->
          IF i - 1 \in 3..6 THEN NoiseByte(k, burst[i]) ELSE burst[i]]

\* one turn of the transmit loop: while data_to_send() { packet();
\* encode_for_transmit() }, the burst going on the air
SendPacket ==
  /\ rx_result # "panic"
  /\ data_to_send(sender)
  /\ \E r \in {packet(sender)} :
       /\ sender' = r.sender
       /\ wire_packets' = Append(wire_packets, r.p)
  /\ LET burst == encode_for_transmit(wire_packets'[Len(wire_packets')])
     IN radio_packets' = Append(radio_packets,
                                [sent |-> burst, heard |-> Corrupted(burst, noise)])
  /\ UNCHANGED <<msg, noise, decVars, rxVars, golay, calc>>

\* decode_with_breaks, first poll: the burst is stripped of its DC balance
Poll1 ==
  /\ rx_result # "panic"
  /\ dpc = "idle"
  /\ radio_packets # <<>>
  /\ dbuf' = StripDC(Head(radio_packets).heard)
  /\ dsent' = Head(radio_packets).sent
  /\ radio_packets' = Tail(radio_packets)
  /\ dpc' = "yield1"
  /\ polls' = PollPending(NoPolls)
  /\ UNCHANGED <<txVars, noise, dec, rxVars, golay, calc>>

\* second poll: de-interleave
Poll2 ==
  /\ dpc = "yield1"
  /\ dbuf' = Deinterleave(dbuf)
  /\ dpc' = "yield2"
  /\ polls' = PollPending(polls)
  /\ UNCHANGED <<txVars, chanVars, dec, dsent, rxVars, golay, calc>>

\* third poll: Golay decode, the result is ready
Poll3 ==
  /\ dpc = "yield2"
  /\ dec' = GolayDecoderResult(dbuf)
  /\ dbuf' = <<>>
  /\ dpc' = "ready"
  /\ polls' = PollReady(polls)
  /\ UNCHANGED <<txVars, chanVars, dsent, rxVars, golay, calc>>

\* rx.append(&p) on the decoded packet
RxAppend ==
  /\ dpc = "ready"
  /\ \E r \in {append(rx, dec)} :
       /\ rx' = r.rx
       /\ rx_result' = r.result
  /\ rx_prev' = rx
  /\ ncalls' = ncalls + 1
  /\ dpc' = "idle"
  /\ UNCHANGED <<txVars, chanVars, dbuf, dec, dsent, polls, golay, calc>>

Next == SendPacket \/ Poll1 \/ Poll2 \/ Poll3 \/ RxAppend

Spec == Init /\ [][Next]_vars

---------------------------------------------------------------------------
(* One codeword through the Golay codec, as test_golay_exhaustive drives   *)
(* it: apply_golay, three bit errors in bits 0..22, undo_golay             *)

\* the 12-bit messages encoded
GolayMessages == {(1171 * k + 1365) % 4096 : k \in 0..(NumCodewords - 1)}

InitGolay ==
  /\ msg = DefaultMessage
  /\ sender = NewSender(msg)
  /\ noise = 0
  /\ Quiet
  /\ golay \in {[stage |-> "message", c |-> c, mask |-> 0, cw |-> 0, out |-> <<>>] :
                  c \in GolayMessages}
  /\ calc = NoCalc

ApplyGolay ==
  /\ golay.stage = "message"
  /\ golay' = [golay EXCEPT !.stage = "codeword", !.cw = apply_golay(golay.c)]
  /\ UNCHANGED <<txVars, chanVars, decVars, rxVars, calc>>

\* three distinct bits of the bits 0..22 are flipped
FlipBits ==
  /\ golay.stage = "codeword"
  /\ \E e1 \in 0..22, e2 \in 0..22, e3 \in 0..22 :
       /\ e1 < e2 /\ e2 < e3
       /\ \E m \in {Pow2(e1) + Pow2(e2) + Pow2(e3)} :
            golay' = [golay EXCEPT !.stage = "received", !.mask = m,
                                   !.cw = Xor(golay.cw, m)]
  /\ UNCHANGED <<txVars, chanVars, decVars, rxVars, calc>>

UndoGolay ==
  /\ golay.stage = "received"
  /\ golay' = [golay EXCEPT !.stage = "decoded", !.out = undo_golay(golay.cw)]
  /\ UNCHANGED <<txVars, chanVars, decVars, rxVars, calc>>

NextGolay == ApplyGolay \/ FlipBits \/ UndoGolay

SpecGolay == InitGolay /\ [][NextGolay]_vars

\* C3: whenever a codeword of apply_golay has been received with three of
\* its bits 0..22 flipped, undo_golay returns the encoded message and a
\* corrected-bit count of 3
C3_TripleErrorCorrected ==
  golay.stage = "decoded" => golay.out[1] = golay.c /\ golay.out[2] = 3

\* a codeword with three flipped bits, among them bit 22 and bit 0, decoded
C3_Witness ==
  /\ golay.stage = "decoded"
  /\ count_ones(golay.mask) = 3
  /\ Bit(golay.mask, 22) = 1 /\ Bit(golay.mask, 0) = 1
  /\ golay.cw # apply_golay(golay.c)
  /\ golay.out[1] = golay.c

---------------------------------------------------------------------------
(* One packet through the wire pipeline, as test_simple_packet drives it:  *)
(* encode_for_transmit, then the three polls of decode_with_breaks         *)

\* eleven payload bytes, some of them above 127
SamplePayload(k) == [i \in 1..11 |-> (128 * ((i + k) % 2) + 17 * k + i) % 256]

SamplePayloads == {SamplePayload(k) : k \in 0..(NumPayloads - 1)}

WirePayloads == SamplePayloads \cup {Zeros(11), [i \in 1..11 |-> 255]}

\* the statuses a packet goes on the air with
WireStatuses ==
  {legacy(f, l) : f \in BOOLEAN, l \in BOOLEAN}
    \cup {V2(s, n, l) : s \in BOOLEAN, n \in BOOLEAN, l \in BOOLEAN}
    \cup {CRC8P(b) : b \in {0, 90, 255}}
    \cup {Data(b) : b \in {0, 165, 255}}

InitWire ==
  /\ msg = DefaultMessage
  /\ sender = NewSender(msg)
  /\ noise = 0
  /\ golay = NoGolay
  /\ calc = NoCalc
  /\ Quiet

\* a PacketData is encoded and its burst goes on the air unharmed
EncodePacket ==
  /\ wire_packets = <<>>
  /\ \E d \in WirePayloads, st \in WireStatuses :
       wire_packets' = <<PacketData(d, st)>>
  /\ \E burst \in {encode_for_transmit(wire_packets'[1])} :
       radio_packets' = <<[sent |-> burst, heard |-> burst]>>
  /\ UNCHANGED <<msg, sender, noise, decVars, rxVars, golay, calc>>

NextWire == EncodePacket \/ Poll1 \/ Poll2 \/ Poll3

SpecWire == InitWire /\ [][NextWire]_vars

\* C4: a packet of 11 payload bytes with a Legacy, V2, CRC8P or Data status
\* that went through encode_for_transmit comes out of the decoder with the
\* same payload, the raw status byte that was put on the wire, and no
\* corrected bit and no parity error
C4_WireRoundTrip ==
  (dpc = "ready" /\ Len(wire_packets) = 1) =>
    /\ dec.data.data = wire_packets[1].data
    /\ dec.data.status = Raw(encode(compute_status(wire_packets[1])))
    /\ dec.errors = 0
    /\ dec.parity_errors = 0

\* a Legacy packet with a non-zero checksum nibble and bytes above 127 decoded
C4_Witness ==
  /\ dpc = "ready"
  /\ Len(wire_packets) = 1
  /\ wire_packets[1].status.tag = "Legacy"
  /\ wire_packets[1].data = SamplePayload(0)
  /\ dec.data.status.v >= 16
  /\ dec.data.data = SamplePayload(0)

---------------------------------------------------------------------------
(* The receiver on its own: append fed with any results the decoder can    *)
(* hand it (11 payload bytes, a raw status byte)                           *)

\* payload d with its last byte replaced by the CRC8 a short V2 packet with
\* status byte b carries there
WithShortCrc(d, b) ==
  [d EXCEPT ![11] = crcFinalize(crcUpdate(crcUpdate(CRC_INIT, Take(d, 10)), <<b>>))]

\* status bytes: the V2 flags, the Legacy flags without a checksum
FlagBytes == {0, 1, 2, 3, 4, 5, 8}

\* the status bytes tried behind payload d on receiver r: the flag bytes, the
\* Legacy status bytes with the checksum of d, the CRC8 of the stream so far
StatusBytes(r, d) ==
  FlagBytes
    \cup {encode(compute_status(PacketData(d, legacy(f, l)))) : f \in BOOLEAN, l \in BOOLEAN}
    \cup {crcFinalize(crcUpdate(r.crc8, d))}

DecoderResult(d, b) ==
  [data |-> PacketData(d, Raw(b)), parity_errors |-> 0, errors |-> 0]

DecoderResults(r) ==
  UNION {{DecoderResult(d, b) : b \in StatusBytes(r, d)} : d \in SamplePayloads}
    \cup {DecoderResult(WithShortCrc(d, b), b) : d \in SamplePayloads, b \in {0, 8}}

InitRx ==
  /\ msg = DefaultMessage
  /\ sender = NewSender(msg)
  /\ noise = 0
  /\ golay = NoGolay
  /\ calc = NoCalc
  /\ Quiet

\* the decoder hands over its next result
Inject ==
  /\ rx_result # "panic"
  /\ dpc = "idle"
  /\ ncalls < MaxAppends
  /\ dec' \in DecoderResults(rx)
  /\ dpc' = "ready"
  /\ UNCHANGED <<txVars, chanVars, dbuf, dsent, polls, rxVars, golay, calc>>

NextRx == Inject \/ RxAppend

SpecRx == InitRx /\ [][NextRx]_vars

---------------------------------------------------------------------------
(* Properties of the transmission (Spec)                                   *)

\* the payload bytes n packets of message m have room for: the first packet
\* carries the header (and the CRC8 of a short message), a Data status
\* carries one more byte
Room(m, n) ==
  (11 * n) - Len(packetHeader(NewSender(m)))
    - (IF m.version = "V2Short" THEN 1 ELSE 0)
    + (IF m.version = "Naked" THEN n - 1 ELSE 0)

\* every packet of the message was sent, decoded and appended
Delivered ==
  /\ ~data_to_send(sender)
  /\ wire_packets # <<>>
  /\ radio_packets = <<>>
  /\ dpc = "idle"
  /\ ncalls = Len(wire_packets)

\* the payload fills the packets sent exactly: nothing was padded
ExactFit == Len(msg.data) = Room(msg, Len(wire_packets))

\* the last append call is over and dec is the result it was given
Appended == ncalls >= 1 /\ dpc = "idle"

\* C1: a message with will_listen = false whose payload exactly fills its
\* packets, sent over a quiet channel and appended packet by packet to a
\* fresh RxMessage, gets Ok from every append and is rebuilt as it was
\* (version, data, source_address, packet_type)
C1_RoundTrip ==
  (noise = 0 /\ ~msg.will_listen) =>
    /\ (Appended /\ Room(msg, ncalls) <= Len(msg.data)) => rx_result = "Ok"
    /\ (Delivered /\ ExactFit) => rx.msg = msg

\* C2, the decoder: a burst with its on-air bytes 3..=6 overwritten decodes
\* to the payload and status byte of the burst as it was sent
C2_DecoderUnharmed ==
  (dpc = "ready" /\ noise > 0) => dec.data = decode_straight(dsent).data

\* C2: a burst with its on-air bytes 3..=6 overwritten decodes to the payload
\* and status byte of the burst as sent, and the receiver rebuilds the
\* original Message from the bursts so received
C2_BurstTolerance ==
  /\ C2_DecoderUnharmed
  /\ (noise > 0 /\ ~msg.will_listen /\ Delivered /\ ExactFit) => rx.msg = msg

\* C6: over a quiet channel no packet of a V2 (non-short, non-naked) message
\* is rejected with CrcFailed: at every CRC8P packet the CRC8 the receiver
\* has computed over the stream equals the status byte of the packet
C6_CrcAgreement ==
  (msg.version = "V2" /\ noise = 0 /\ Appended) =>
    /\ rx_result # "CrcFailed"
    /\ curStatus(rx_prev, dec.data).tag = "CRC8P" =>
         crcFinalize(crcUpdate(rx_prev.crc8, dec.data.data)) = dec.data.status.v

\* the CRC8P packet of a two-packet V2 message accepted
C6_Witness ==
  /\ msg.version = "V2"
  /\ noise = 0
  /\ Appended
  /\ ncalls = 2
  /\ rx.last_status.tag = "CRC8P"
  /\ rx.last_status.v = wire_packets[2].status.v
  /\ rx_result = "Ok"

\* C10: when the whole payload of a V2 (non-short, non-naked) message went
\* into the first packet, data_to_send() still reports a packet pending, and
\* the sender does not finish the message without a CRC8P packet
C10_ForcedFollowUp ==
  msg.version = "V2" =>
    /\ (Len(wire_packets) = 1 /\ sender.sent >= Len(msg.data)) => data_to_send(sender)
    /\ (wire_packets # <<>> /\ ~data_to_send(sender)) =>
         \E i \in 1..Len(wire_packets) : wire_packets[i].status.tag = "CRC8P"

---------------------------------------------------------------------------
(* Properties of the receiver (SpecRx)                                     *)

\* C5: no append call on decoder output aborts: each returns Ok or one of
\* the RxDecodeError values
C5_AppendTotal == rx_result # "panic"

\* C7: a first packet that classifies as V2 short (not naked) and whose last
\* payload byte is not the CRC8 of payload bytes 0..9 and the status byte is
\* rejected with CrcFailed
C7_ShortCrcMismatchRejected ==
  (Appended /\ ncalls = 1 /\ rx_prev = DefaultRx
     /\ decode(Unknown, dec.data.status.v).tag = "V2"
     /\ decode(Unknown, dec.data.status.v).short
     /\ ~decode(Unknown, dec.data.status.v).naked
     /\ dec.data.data[11] #
          crcFinalize(crcUpdate(crcUpdate(CRC_INIT, Take(dec.data.data, 10)),
                                <<dec.data.status.v>>)))
    => rx_result = "CrcFailed"

\* a short first packet with a wrong last byte was appended and refused
C7_Witness ==
  /\ Appended /\ ncalls = 1 /\ rx_prev = DefaultRx
  /\ dec.data.status.v = 8
  /\ dec.data.data = SamplePayload(0)
  /\ dec.data.data[11] # WithShortCrc(dec.data.data, 8)[11]
  /\ rx_result = "CrcFailed"

\* C8: a packet that classifies as Legacy and whose checksum nibble is not
\* the checksum4 of its payload and flags gets Err(Invalid), and none of its
\* payload is appended
C8_LegacyChecksumEnforced ==
  (Appended
     /\ ~(rx_prev.last_status.tag = "Legacy" /\ rx_prev.last_status.last)
     /\ ~(rx_prev.last_status.tag = "V2" /\ rx_prev.last_status.short)
     /\ curStatus(rx_prev, dec.data).tag = "Legacy"
     /\ compute_status(PacketData(dec.data.data, curStatus(rx_prev, dec.data)))
          # curStatus(rx_prev, dec.data))
    => (rx_result = "Invalid" /\ rx.msg.data = rx_prev.msg.data)

\* C9: once the receiver holds a terminal status (Legacy with last, V2 with
\* short), an append call returns Unexpected and leaves the receiver as it was
C9_TerminalAbsorbing ==
  (Appended
     /\ \/ rx_prev.last_status.tag = "Legacy" /\ rx_prev.last_status.last
        \/ rx_prev.last_status.tag = "V2" /\ rx_prev.last_status.short)
    => (rx_result = "Unexpected" /\ rx = rx_prev)

\* a short V2 packet was accepted and the packet after it refused
C9_Witness ==
  /\ Appended /\ ncalls = 2
  /\ rx_prev.last_status.tag = "V2" /\ rx_prev.last_status.short
  /\ rx_prev.msg.version = "V2Short"
  /\ rx_result = "Unexpected"
  /\ rx = rx_prev

---------------------------------------------------------------------------
(* Properties of the sender (Spec)                                         *)

\* C16: decode_with_breaks returns Pending on its first and second poll,
\* having woken its waker each time, and Ready on the third, with the
\* result of strip, de-interleave and Golay decode run straight through on
\* the same 32 bytes
C16_TwoSuspensions ==
  /\ dpc = "yield1" => polls = [n |-> 1, ret |-> "Pending", wakes |-> 1]
  /\ dpc = "yield2" => polls = [n |-> 2, ret |-> "Pending", wakes |-> 2]
  /\ dpc = "ready" =>
       /\ polls = [n |-> 3, ret |-> "Ready", wakes |-> 2]
       /\ dec = decode_straight(Corrupted(dsent, noise))

\* the third poll returned a packet of a burst that was damaged on the air
C16_Witness ==
  /\ dpc = "ready"
  /\ polls.ret = "Ready"
  /\ noise > 0
  /\ Corrupted(dsent, noise) # dsent
  /\ dec.data.data # <<>>

\* C11: a V2Short message goes out in one packet: after the first packet()
\* call data_to_send() is false, whatever the length of the payload
C11_ShortSinglePacket ==
  (msg.version = "V2Short" /\ wire_packets # <<>>) =>
    (~data_to_send(sender) /\ Len(wire_packets) = 1)

\* C12: the payload of the first packet starts with varlength(packet_type)
\* (not for a naked message) and then varlength(source_address), and the
\* decode_extended_number calls of the receiver get both numbers back
C12_HeaderLayout ==
  wire_packets # <<>> =>
    LET first == wire_packets[1].data
        naked == msg.version = "Naked"
        id == IF naked THEN <<>> ELSE encode_varlength(msg.packet_type[1])
        header == id \o encode_varlength(msg.source_address)
        t == IF naked THEN <<0, 0>> ELSE decode_extended_number(first, 0)
        a == decode_extended_number(first, t[2])
    IN /\ Take(first, Len(header)) = header
       /\ naked \/ t[1] = msg.packet_type[1]
       /\ a[1] = msg.source_address

---------------------------------------------------------------------------
(* The pure functions of the codec, one call at a time, as the unit tests  *)
(* of util.rs, dc.rs and packet.rs call them                               *)

\* the numbers put through the varlength codec: the small ones, and those
\* around each power of two below 2^28
VarlengthValues ==
  (0..MaxSmallValue)
    \cup {Pow2(sh) + d : sh \in 1..27, d \in {-1, 0, 1}}
    \cup {Pow2(28) - 1}

RECURSIVE longestLoop(_, _, _, _, _, _)
\* the loop of longest_bit_sequence from bit i on: last is the bit before
\* (-1 for None), count the run it ends, max the longest run so far
longestLoop(code, len, i, last, count, max) ==
  IF i >= len THEN max
  ELSE IF Bit(code, i) = last
  THEN longestLoop(code, len, i + 1, last, count + 1,
                   IF count + 1 > max THEN count + 1 ELSE max)
  ELSE longestLoop(code, len, i + 1, Bit(code, i), 1, IF 1 > max THEN 1 ELSE max)

\* dc.rs, mod test: the longest run of equal bits in the lowest len bits
longest_bit_sequence(code, len) == longestLoop(code, len, 0, -1, 0, 0)

\* the statuses that go on the air first, and those that follow
FirstStatuses ==
  {V2(s, n, l) : s \in BOOLEAN, n \in BOOLEAN, l \in BOOLEAN}
    \cup {Legacy(TRUE, l, c) : l \in BOOLEAN, c \in 0..15}

LegacyStatuses == {Legacy(f, l, c) : f \in BOOLEAN, l \in BOOLEAN, c \in 0..15}

CrcPriors == {V2(s, FALSE, l) : s \in BOOLEAN, l \in BOOLEAN} \cup {CRC8P(0), CRC8P(255)}

\* <<prior state, status>>: each status behind the states it follows
StatusPairs ==
  ({Unknown} \X FirstStatuses)
    \cup (LegacyStatuses \X LegacyStatuses)
    \cup (CrcPriors \X {CRC8P(c) : c \in 0..255})

\* 24-byte buffers: one bit set, and some full ones
OneBit(i, b) == [k \in 1..24 |-> IF k = i THEN Pow2(b) ELSE 0]

SampleBuffer(k) == [i \in 1..24 |-> (85 * k + (16 * k + 7) * i) % 256]

\* the Golay buffer whose word k (A = 0 .. H = 7) is all ones
WordOnes(k) == [i \in 1..24 |-> IF (i - 1) \div 3 = k THEN 255 ELSE 0]

Buffers ==
  {OneBit(i, b) : i \in 1..24, b \in 0..7}
    \cup {WordOnes(k) : k \in 0..7}
    \cup {SampleBuffer(k) : k \in 0..(NumBuffers - 1)}
    \cup {Zeros(24), [i \in 1..24 |-> 255]}

Called(op, arg, mid, out) == [op |-> op, arg |-> arg, mid |-> mid, out |-> out]

InitCalc ==
  /\ msg = DefaultMessage
  /\ sender = NewSender(msg)
  /\ noise = 0
  /\ golay = NoGolay
  /\ calc = NoCalc
  /\ Quiet

\* test_golay_reversibility: a codeword decoded as it was encoded
GolayClean ==
  /\ calc.op = "none"
  /\ \E c \in 0..4095 :
       \E cw \in {apply_golay(c)} :
         calc' = Called("golay", c, cw, undo_golay(cw))
  /\ UNCHANGED <<txVars, chanVars, decVars, rxVars, golay>>

\* decode_extended_number on the bytes of encode_varlength
Varlength ==
  /\ calc.op = "none"
  /\ \E v \in VarlengthValues :
       \E bytes \in {encode_varlength(v)} :
         calc' = Called("varlength", v, bytes, decode_extended_number(bytes, 0))
  /\ UNCHANGED <<txVars, chanVars, decVars, rxVars, golay>>

\* test_encode_id: add(encode_id(v)) beside add_varlen(v)
EncodeId ==
  /\ calc.op = "none"
  /\ \E v \in 128..14745 :
       calc' = Called("encode_id", v, add_u16(encode_id(v)), encode_varlength(v))
  /\ UNCHANGED <<txVars, chanVars, decVars, rxVars, golay>>

\* a status is encoded and decoded again by the state it follows
StatusRoundTrip ==
  /\ calc.op = "none"
  /\ \E pair \in StatusPairs :
       \E b \in {encode(pair[2])} :
         calc' = Called("status", pair, b, decode(pair[1], b))
  /\ UNCHANGED <<txVars, chanVars, decVars, rxVars, golay>>

\* test_full_reversability: a 6-bit symbol balanced and stripped
DcSymbol ==
  /\ calc.op = "none"
  /\ \E b \in 0..63 :
       \E enc \in {balance(b)} :
         calc' = Called("balance", b, enc, strip(enc))
  /\ UNCHANGED <<txVars, chanVars, decVars, rxVars, golay>>

\* test_max_sequence_in_sequence: two balanced symbols side by side
DcPair ==
  /\ calc.op = "none"
  /\ \E b1 \in 0..63, b2 \in 0..63 :
       \E code \in {balance(b1) * 256 + balance(b2)} :
         calc' = Called("pair", <<b1, b2>>, code, longest_bit_sequence(code, 16))
  /\ UNCHANGED <<txVars, chanVars, decVars, rxVars, golay>>

\* test_interleave: a Golay buffer interleaved and de-interleaved
Interleave ==
  /\ calc.op = "none"
  /\ \E g \in Buffers :
       \E p \in {PacketWithInterleave(g)} :
         calc' = Called("interleave", g, p, Deinterleave(p))
  /\ UNCHANGED <<txVars, chanVars, decVars, rxVars, golay>>

\* an interleaved buffer de-interleaved and interleaved again
Deinterleaved ==
  /\ calc.op = "none"
  /\ \E p \in Buffers :
       \E g \in {Deinterleave(p)} :
         calc' = Called("deinterleave", p, g, PacketWithInterleave(g))
  /\ UNCHANGED <<txVars, chanVars, decVars, rxVars, golay>>

\* an 11-byte payload that sums to b
LegacyPayload(b) == [i \in 1..11 |-> IF i = 1 THEN b ELSE 0]

\* the payloads of the Legacy checksum: every byte sum, and the samples
LegacyPayloads == {LegacyPayload(b) : b \in 0..255} \cup SamplePayloads

\* compute_status of a Legacy packet, its status byte decoded again and
\* check_valid on the packet rebuilt from payload and decoded status
LegacyChecksum ==
  /\ calc.op = "none"
  /\ \E data \in LegacyPayloads, first \in BOOLEAN, last \in BOOLEAN :
       \E st \in {compute_status(PacketData(data, legacy(first, last)))} :
         \E heard \in {decode(legacy(first, last), encode(st))} :
           calc' = Called("legacy", data, st,
                          <<heard, check_valid(PacketData(data, heard))>>)
  /\ UNCHANGED <<txVars, chanVars, decVars, rxVars, golay>>

NextCalc ==
  \/ Varlength
  \/ EncodeId
  \/ StatusRoundTrip
  \/ DcSymbol
  \/ DcPair
  \/ Interleave
  \/ Deinterleaved
  \/ GolayClean
  \/ LegacyChecksum

SpecCalc == InitCalc /\ [][NextCalc]_vars

\* C13: decode_extended_number at index 0 of the bytes of encode_varlength(v)
\* returns v and the number of those bytes
C13_VarlengthRoundTrip ==
  calc.op = "varlength" => calc.out = <<calc.arg, Len(calc.mid)>>

\* C14: a status decoded from its own encoding by the state it follows is
\* the status again
C14_StatusRoundTrip ==
  calc.op = "status" => calc.out = calc.arg[2]

\* a Legacy status with a checksum behind a Legacy state came back
C14_Witness ==
  /\ calc.op = "status"
  /\ calc.arg[1].tag = "Legacy"
  /\ calc.arg[2] = Legacy(FALSE, FALSE, 9)
  /\ calc.mid = 145
  /\ calc.out = calc.arg[2]

\* C15: for every 12-bit c the 24 bits of apply_golay(c) have even parity
\* and undo_golay gives back c with no corrected bit and a good parity
C15_GolayCleanRoundTrip ==
  calc.op = "golay" =>
    /\ PopCount(calc.mid) % 2 = 0
    /\ calc.mid < Pow2(24)
    /\ calc.out = <<calc.arg, 0, TRUE>>

\* a codeword whose parity bit is set came back clean
C15_Witness ==
  /\ calc.op = "golay"
  /\ calc.arg = 1
  /\ Bit(calc.mid, 23) = 1
  /\ calc.out = <<1, 0, TRUE>>

\* C17: de-interleaving the interleaved form of a 24-byte buffer gives the
\* buffer back, and so does interleaving its de-interleaved form
C17_InterleaveIdentity ==
  calc.op \in {"interleave", "deinterleave"} => calc.out = calc.arg

\* a full buffer went through both ways and was changed on the way
C17_Witness ==
  /\ calc.op = "deinterleave"
  /\ calc.arg = SampleBuffer(1)
  /\ calc.mid # calc.arg
  /\ calc.out = calc.arg

\* C18: strip(balance(b)) = b for every 6-bit b
C18_StripBalance ==
  calc.op = "balance" => calc.out = calc.arg

\* a symbol whose balanced form carries both stuffing bits came back
C18_Witness ==
  /\ calc.op = "balance"
  /\ calc.arg = 0
  /\ calc.mid = 36
  /\ calc.out = 0

\* C19: balance(b1) and balance(b2) side by side hold no run of more than 5
\* equal bits
C19_RunLength ==
  calc.op = "pair" => calc.out <= 5

\* a pair of symbols with a run of exactly 5 equal bits
C19_Witness ==
  /\ calc.op = "pair"
  /\ calc.out = 5

\* C20: for v in 0x80..=0x3999 the bytes add() appends for encode_id(v) are
\* the bytes of add_varlen(v)
C20_EncodeIdVarlength ==
  calc.op = "encode_id" => calc.mid = calc.out

\* the largest id, two bytes long
C20_Witness ==
  /\ calc.op = "encode_id"
  /\ calc.arg = 14745
  /\ calc.mid = <<153, 115>>
  /\ calc.out = <<153, 115>>

\* C22: the checksum4 of compute_status on a Legacy packet is in 0..15, its
\* encoded status byte decodes to the same status, and check_valid holds
\* for the packet rebuilt from the payload and the decoded status
C22_LegacyChecksumFits ==
  calc.op = "legacy" =>
    /\ calc.mid.checksum4 \in 0..15
    /\ calc.out[1] = calc.mid
    /\ calc.out[2]

\* the bits of the 192-bit stream of buf (byte 0 first, least significant
\* bit first) that are set among the count bits from start on
SetBits(buf, start, count) ==
  {n \in start..(start + count - 1) : StreamBit(buf, 8, n) = 1}

\* C23: in the interleaved stream the 24 bits of one Golay word lie so that
\* every window of 8 consecutive bits holds at most one of them and every
\* window of 24 consecutive bits at most three
C23_BurstDispersal ==
  (calc.op = "interleave" /\ \E k \in 0..7 : calc.arg = WordOnes(k)) =>
    /\ Cardinality(SetBits(calc.mid, 0, 192)) = 24
    /\ \A start \in 0..184 : Cardinality(SetBits(calc.mid, start, 8)) <= 1
    /\ \A start \in 0..168 : Cardinality(SetBits(calc.mid, start, 24)) <= 3

\* word C interleaved: its bits are in the stream, one in a window that
\* straddles two bytes
C23_Witness ==
  /\ calc.op = "interleave"
  /\ calc.arg = WordOnes(2)
  /\ Cardinality(SetBits(calc.mid, 0, 192)) = 24
  /\ Cardinality(SetBits(calc.mid, 3, 8)) = 1

\* the append call returned an error
Rejected == Appended /\ rx_result \notin {"Ok", "panic"}

\* C27 as stated: whenever append returns Err the receiver is as it was
\* before the call
C27_RejectedLeavesUntouched ==
  Rejected => rx = rx_prev

\* C27, amended: a packet rejected before the match on its status
\* (Unexpected, Invalid) or at the head of its arm (OutOfOrder,
\* UnknownPacket, InternalOnly, RawNeedsDecoding) leaves the receiver as it
\* was; a packet rejected with CrcFailed leaves msg.data, last_status and
\* errors as they were, and in the CRC8P arm the message and naked as well,
\* while the digest has taken its payload; a packet rejected with Full has
\* been recorded as the last status and msg.data is full, beginning with
\* what it held before
C27_RejectedEffects ==
  Rejected =>
    /\ rx_result \notin {"CrcFailed", "Full"} => rx = rx_prev
    /\ rx_result = "CrcFailed" =>
         /\ rx.msg.data = rx_prev.msg.data
         /\ rx.last_status = rx_prev.last_status
         /\ rx.errors = rx_prev.errors
         /\ curStatus(rx_prev, dec.data).tag = "CRC8P" =>
              /\ rx.msg = rx_prev.msg
              /\ rx.naked = rx_prev.naked
              /\ rx.crc8 = crcUpdate(rx_prev.crc8, dec.data.data)
    /\ rx_result = "Full" =>
         /\ rx.last_status = curStatus(rx_prev, dec.data)
         /\ Len(rx.msg.data) = N
         /\ Take(rx.msg.data, Len(rx_prev.msg.data)) = rx_prev.msg.data

\* a packet that did not fit was rejected with Full behind two accepted ones
C27_Witness ==
  /\ Rejected
  /\ ncalls = 3
  /\ rx_result = "Full"
  /\ Len(rx_prev.msg.data) < N
  /\ Len(rx.msg.data) = N
  /\ rx.last_status # rx_prev.last_status

\* the header fields of the message
HeaderFields(r) == <<r.msg.version, r.msg.source_address, r.msg.packet_type>>

\* C29: once an append has been accepted, no later append call, accepted or
\* rejected, changes msg.version, msg.source_address or msg.packet_type
C29_HeaderFixed ==
  (Appended /\ rx_prev.last_status # Unknown) =>
    HeaderFields(rx) = HeaderFields(rx_prev)

\* a second packet with another payload and the flags of a header packet
\* was accepted as a CRC8P packet and left the header fields alone
C29_Witness ==
  /\ Appended
  /\ ncalls = 2
  /\ rx_prev.last_status = V2(FALSE, FALSE, FALSE)
  /\ rx_prev.msg.data # <<>>
  /\ dec.data.data = SamplePayload(1)
  /\ rx_result = "Ok"
  /\ rx.last_status.tag = "CRC8P"
  /\ HeaderFields(rx) = HeaderFields(rx_prev)

---------------------------------------------------------------------------
(* One codeword through the Golay codec with up to three bit errors in     *)
(* bits 0..22 and the parity bit, bit 23, flipped or not                   *)

\* the mask of the distinct bits among e1 <= e2 <= e3
FlipMask(e1, e2, e3) ==
  Pow2(e1) + (IF e2 # e1 THEN Pow2(e2) ELSE 0) + (IF e3 # e2 THEN Pow2(e3) ELSE 0)

\* none, one, two or three of the bits 0..22 are flipped, and bit 23 with
\* them or not
FlipUpToThree ==
  /\ golay.stage = "codeword"
  /\ \E e1 \in 0..22, e2 \in 0..22, e3 \in 0..22, none \in BOOLEAN, p \in 0..1 :
       /\ e1 <= e2 /\ e2 <= e3
       /\ none => e3 = 0
       /\ \E m \in {(IF none THEN 0 ELSE FlipMask(e1, e2, e3)) + p * Pow2(23)} :
            golay' = [golay EXCEPT !.stage = "received", !.mask = m,
                                   !.cw = Xor(golay.cw, m)]
  /\ UNCHANGED <<txVars, chanVars, decVars, rxVars, calc>>

NextParity == ApplyGolay \/ FlipUpToThree \/ UndoGolay

SpecParity == InitGolay /\ [][NextParity]_vars

\* C21: after up to three flipped bits in bits 0..22, undo_golay reports
\* parity_ok = TRUE when bit 23 arrived as it was sent and FALSE when bit 23
\* was flipped
C21_ParityFlag ==
  golay.stage = "decoded" => (golay.out[3] <=> Bit(golay.mask, 23) = 0)

---------------------------------------------------------------------------
(* The transmit loop alone: while data_to_send() { packet() }, for         *)
(* messages of every length the vector holds                               *)

\* the source addresses sent: one byte long on the wire, and five
TxAddresses == {85, 2147483647}

TxMessages ==
  {Message(v, SampleData(len), a, <<t>>, l) :
     v \in {"LegacyLaso", "V2", "V2Short"}, len \in 0..N,
     a \in TxAddresses, t \in PacketTypes, l \in BOOLEAN}
  \cup
  {Message("Naked", SampleData(len), a, <<>>, l) :
     len \in 0..N, a \in TxAddresses, l \in BOOLEAN}

InitTx ==
  /\ msg \in TxMessages
  /\ sender = NewSender(msg)
  /\ noise = 0
  /\ golay = NoGolay
  /\ calc = NoCalc
  /\ Quiet

\* one turn of the loop: packet() while data_to_send()
Packet ==
  /\ data_to_send(sender)
  /\ \E r \in {packet(sender)} :
       /\ sender' = r.sender
       /\ wire_packets' = Append(wire_packets, r.p)
  /\ UNCHANGED <<msg, chanVars, decVars, rxVars, golay, calc>>

NextTx == Packet

SpecTx == InitTx /\ [][NextTx]_vars

\* C24: in the packets emitted for a LegacyLaso message the first packet and
\* only the first has first = TRUE, and the packet after which data_to_send()
\* is false, and only that one, has last = TRUE
C24_LegacyFlags ==
  msg.version = "LegacyLaso" =>
    \A i \in 1..Len(wire_packets) :
      /\ wire_packets[i].status.tag = "Legacy"
      /\ wire_packets[i].status.first <=> (i = 1)
      /\ wire_packets[i].status.last <=>
           (i = Len(wire_packets) /\ ~data_to_send(sender))

\* a Legacy message went out in three packets
C24_Witness ==
  /\ msg.version = "LegacyLaso"
  /\ Len(wire_packets) = 3
  /\ ~data_to_send(sender)
  /\ wire_packets[1].status.first /\ ~wire_packets[1].status.last
  /\ ~wire_packets[2].status.first /\ ~wire_packets[2].status.last
  /\ ~wire_packets[3].status.first /\ wire_packets[3].status.last

\* the header bytes of the first packet of msg
HeaderLen == Len(packetHeader(NewSender(msg)))

\* the payload slots of packet i: behind the header and before the CRC byte
\* of a short packet in the first, all 11 in the others, and in naked mode
\* the status byte as a twelfth
Carried(i) ==
  IF i = 1
  THEN (IF msg.version = "V2Short" THEN 10 ELSE 11) - HeaderLen
  ELSE IF msg.version = "Naked" THEN 12 ELSE 11

\* the payload slots of the packets before packet i
StreamOffset(i) == IF i = 1 THEN 0 ELSE Carried(1) + (i - 2) * Carried(2)

\* payload slot j of packet i
PayloadByte(i, j) ==
  IF i = 1 THEN wire_packets[i].data[HeaderLen + j]
  ELSE IF j = 12 THEN wire_packets[i].status.v
  ELSE wire_packets[i].data[j]

\* C25: every packet of packet() has exactly 11 payload bytes, and each of
\* them that is not header, message payload or the CRC byte of a short
\* packet is zero
C25_FixedSizeZeroPadded ==
  \A i \in 1..Len(wire_packets) :
    /\ Len(wire_packets[i].data) = 11
    /\ \A j \in 1..Min(Carried(i), 11) :
         StreamOffset(i) + j > Len(msg.data) => PayloadByte(i, j) = 0

\* a short packet with two message bytes: zeros between them and the CRC
C25_Witness ==
  /\ msg.version = "V2Short"
  /\ Len(msg.data) = 2
  /\ Len(wire_packets) = 1
  /\ Len(wire_packets[1].data) = 11
  /\ wire_packets[1].data[HeaderLen + 2] = 2
  /\ \A j \in (HeaderLen + 3)..10 : wire_packets[1].data[j] = 0
  /\ wire_packets[1].data[11] # 0

\* C28: the payload slots of the emitted packets, in emission order, hold
\* the message data and after it zeros only, and when the loop has ended
\* they hold all of it
C28_SegmentationPreservesPayload ==
  /\ \A i \in 1..Len(wire_packets) :
       \A j \in 1..Carried(i) :
         PayloadByte(i, j) =
           IF StreamOffset(i) + j <= Len(msg.data)
           THEN msg.data[StreamOffset(i) + j] ELSE 0
  /\ (wire_packets # <<>> /\ ~data_to_send(sender)) =>
       StreamOffset(Len(wire_packets) + 1) >= Len(msg.data)

\* a naked message whose last byte went out as the status of the second
\* packet
C28_Witness ==
  /\ msg.version = "Naked"
  /\ Len(msg.data) = N
  /\ Len(wire_packets) = 2
  /\ ~data_to_send(sender)
  /\ StreamOffset(3) = N
  /\ wire_packets[2].status = Data(msg.data[N])

---------------------------------------------------------------------------
(* The receiver fed with decoder results that carry corrected bits and     *)
(* parity errors, one payload again and again                              *)

\* what the decoder counts for a packet of eight codewords: nothing, or
\* three corrected bits in each, and no or eight parity errors
ErrCounts == {0, 24}
ParityCounts == {0, 8}

\* the results handed to receiver r: a V2 header packet or the packet that
\* continues the CRC8 stream of r
ErrResults(r) ==
  {[data |-> PacketData(SamplePayload(0), Raw(b)), parity_errors |-> pe, errors |-> e] :
     b \in {1, crcFinalize(crcUpdate(r.crc8, SamplePayload(0)))},
     e \in ErrCounts, pe \in ParityCounts}

InjectErr ==
  /\ rx_result # "panic"
  /\ dpc = "idle"
  /\ ncalls < MaxErrAppends
  /\ dec' \in ErrResults(rx)
  /\ dpc' = "ready"
  /\ UNCHANGED <<txVars, chanVars, dbuf, dsent, polls, rxVars, golay, calc>>

NextErr == InjectErr \/ RxAppend

SpecErr == InitRx /\ [][NextErr]_vars

\* C26: the error counter of the receiver never decreases and never wraps:
\* a packet that passes validation adds dec.errors + dec.parity_errors to
\* it, and the counter stays at 255 where the sum would exceed 255
C26_ErrorsSaturate ==
  Appended =>
    /\ rx.errors >= rx_prev.errors
    /\ rx.errors <= 255
    /\ rx_result \in {"Ok", "Full"} =>
         rx.errors = Min(255, rx_prev.errors + dec.errors + dec.parity_errors)

\* a packet with errors accepted by a receiver whose counter could not take
\* them all
C26_Witness ==
  /\ Appended
  /\ rx_result \in {"Ok", "Full"}
  /\ rx_prev.errors < 255
  /\ rx_prev.errors + dec.errors + dec.parity_errors > 255
  /\ rx.errors = 255

====
